---- MODULE Spec2Model ----
(***************************************************************************)
(* The code-execution engine of src/generation/utils.py: run_code (the     *)
(* worker), _run_code_wrapper (one request: start a worker, wait, kill or  *)
(* collect) and the entry points built on it (test_code_single_case,       *)
(* test_code_multi_cases, test_code_multi_cases_async, test_multi_code and *)
(* their ProcessPoolExecutor), and the caller of the engine in             *)
(* src/generation/prompts.py, SandboxExecutor.execute_code_multiple_inputs.*)
(*                                                                         *)
(* A snippet is source text the engine exec()s.  Its text is modelled by   *)
(* a short program over a handful of statements (read a line, print,       *)
(* raise, sys.exit, ...), interpreted by Exec; everything around the       *)
(* exec() call is translated from the source.  Wall-clock time is not      *)
(* measured: the join's deadline may fall at any point of a worker's life, *)
(* and the time a worker reports is the number of statements it ran.       *)
(***************************************************************************)
EXTENDS Naturals, Integers, Sequences, FiniteSets, TLC

VARIABLES
  entry,        \* the entry point called: "single" | "multi" | "async" |
                \* "multi_code" | "sandbox" (execute_code_multiple_inputs)
  codes,        \* its code argument(s), a sequence of snippet names
  cases,        \* its case argument(s), a sequence of inputs
  args_list,    \* the requests, in submission order: <<[code, case]>>
  code_indices, \* test_multi_code: request -> index of its code in codes
  max_workers,  \* size of the process pool ("single": 1, the caller itself)
  self_memory_limit, \* the memory_limit the SandboxExecutor was built with (MB)
  pool,         \* the ProcessPoolExecutor: "none" | "up" | "down"
  facade,       \* where the coroutine of the async entry is ("none" elsewhere)
  other,        \* a second task on the caller's event loop: its position
  nextTask,     \* index of the next request the pool hands to an idle slot
  slot,         \* per pool process: where it is inside _run_code_wrapper
  proc,         \* pid -> the worker process started for a request
  queue,        \* request -> contents of its manager.Queue()
  futures,      \* request -> the CodeResults its _run_code_wrapper call returned
  completed,    \* the requests in the order their wrapper returned
  results,      \* <<>> until the entry point returns, then <<its return value>>
  stats,        \* <<>> until the generated outputs are scored, then <<the counts>>
  trace,        \* the text of a model response handed to extract_python_code
  extracted_code, \* <<>> until extract_python_code returns, then <<its value>>
  existing_responses, \* resume: the (problem_id, type) pairs of ../data/responses.jsonl
  output_file,  \* resume: the pairs in the generator's output file, responses.jsonl
  remaining_problems, \* resume: the problems that miss a response
  tasks,        \* resume: the (problem_id, type) pairs generate_response was called for
  resume        \* resume: where resume_generation is

\* the call: its arguments and what the entry point derives from them at once
call == <<entry, codes, cases, args_list, code_indices, max_workers,
          self_memory_limit>>

\* the response pipeline around the engine
generation == <<trace, extracted_code, existing_responses, output_file,
                remaining_problems, tasks, resume>>

vars == <<call, pool, facade, other, nextTask, slot, proc, queue,
          futures, completed, results, stats, generation>>

----------------------------------------------------------------------------
(* Bounds of the model *)

\* longest batch
MaxCases == 2
\* largest pool
MaxPool == 2
\* most codes given to test_multi_code
MaxCodes == 2
\* multiprocessing.cpu_count() of the machine
CpuCount == 2

----------------------------------------------------------------------------
(* CodeResult, data_structures.py *)

\* Python's None in the output and error fields (printed text ends in a
\* newline and no message of the snippets reads "None")
None == "None"
NotYet == <<>>

OK == "OK"
TLE == "Time Limit Error"
MLE == "Memory Limit Error"
RTE == "Runtime Error"
Verdicts == {OK, TLE, MLE, RTE}

CodeResult(time, memory, verdict, output, error) ==
  [time |-> time, memory |-> memory, verdict |-> verdict,
   output |-> output, error |-> error]

\* run_code's default memory_limit (MB); _run_code_wrapper never passes another
memory_limit == 256
\* the entry points' default time_limit
time_limit == 2

----------------------------------------------------------------------------
(* Snippets.  A program is a sequence of statements; a statement is         *)
(* [op, on]: it runs when `on` is Always or equals the line last read.      *)

Always == "*"
Stmt(op, on) == [op |-> op, on |-> on]

\* x = input(); then one behaviour per value of x; print(x) when none applies
Branch ==
  << Stmt("read", Always),
     Stmt("raise", "boom"),       \* raise ValueError(x)
     Stmt("raise_empty", "void"), \* raise ValueError()
     Stmt("sysexit", "exit"),     \* sys.exit(0): SystemExit, a BaseException
     Stmt("abort", "abort"),      \* os._exit(3): the process dies at once
     Stmt("spin", "spin"),        \* while True: pass
     Stmt("deaf", "deaf"),        \* signal.signal(SIGTERM, SIG_IGN)
     Stmt("spin", "deaf"),
     Stmt("alloc", "big"),        \* a = [0] * 10**9 ...
     Stmt("raise", "big"),        \* ... and fail
     Stmt("alloc", "hog"),        \* a = [0] * 10**9, and carry on
     Stmt("alloc_half", "half"),  \* a = [0] * (20 * 10**6): half the default limit ...
     Stmt("raise", "half"),       \* ... and fail
     Stmt("setg", "set"),         \* math.tag = x
     Stmt("printg", "set"),       \* print(math.tag)
     Stmt("printg", "probe"),
     Stmt("print", "two"),        \* print(x); x = input()
     Stmt("read", "two"),
     Stmt("print", Always) >>

\* print(input())
Echo == << Stmt("read", Always), Stmt("print", Always) >>

\* the snippets, by name, and the text each name stands for
Codes == {"branch", "echo"}
Program(code) == IF code = "branch" THEN Branch ELSE Echo
Lines == {"hello", "boom", "void", "exit", "abort", "spin", "deaf", "big", "hog",
          "set", "probe"}

\* the stdin texts of the model, each held as its lines: the one-line texts
\* and "two\nhello"
Inputs == {<<l>> : l \in Lines} \cup {<<"two", "hello">>}

\* default_globals as the module defines it: nothing a snippet has added
CleanGlobals == "clean"

\* io.StringIO(case).readline().rstrip('\n'), the text held as its lines
ReadLine(stdin) == IF stdin = <<>> THEN "" ELSE Head(stdin)
\* (mutant) every input() call starts again at the top of the text
RestLinesRewound(stdin) == stdin
RestLines(stdin) == IF stdin = <<>> THEN <<>> ELSE Tail(stdin)

\* the state of exec(code, default_globals) inside one process; peak is
\* ru_maxrss in MB, 1 for an interpreter that has allocated nothing of note
ExecStart(case, globals) ==
  [stdin |-> case, x |-> "", out |-> "", ticks |-> 0, peak |-> 1,
   globals |-> globals, deaf |-> FALSE, end |-> "running", msg |-> ""]

ExecStmt(st, s) ==
  LET t == [st EXCEPT !.ticks = @ + 1] IN
  CASE s.op = "read"        -> [t EXCEPT !.x = ReadLine(st.stdin),
                                         !.stdin = RestLines(st.stdin)]
    [] s.op = "print"       -> [t EXCEPT !.out = @ \o st.x \o "\n"]
    [] s.op = "printg"      -> [t EXCEPT !.out = @ \o st.globals \o "\n"]
    [] s.op = "setg"        -> [t EXCEPT !.globals = st.x]
    [] s.op = "alloc"       -> [t EXCEPT !.peak = memory_limit + 1]
    [] s.op = "alloc_half"  -> [t EXCEPT !.peak = memory_limit \div 2]
    [] s.op = "deaf"        -> [t EXCEPT !.deaf = TRUE]
    [] s.op = "raise"       -> [t EXCEPT !.end = "Exception", !.msg = st.x]
    [] s.op = "raise_empty" -> [t EXCEPT !.end = "Exception", !.msg = ""]
    [] s.op = "sysexit"     -> [t EXCEPT !.end = "BaseException", !.msg = "0"]
    [] s.op = "abort"       -> [t EXCEPT !.end = "died"]
    [] s.op = "spin"        -> [t EXCEPT !.end = "spinning"]

RECURSIVE Exec(_, _)
Exec(code, st) ==
  IF st.end # "running" THEN st
  ELSE IF code = <<>> THEN [st EXCEPT !.end = "returned"]
  ELSE LET s == Head(code) IN
       IF s.on = Always \/ s.on = st.x
       THEN Exec(Tail(code), ExecStmt(st, s))
       ELSE Exec(Tail(code), st)

----------------------------------------------------------------------------
(* run_code: what the worker process does with one request *)

\* (mutant) the failure results keep what the snippet had printed
RunCodeResultKeepsOutput(st) ==
  IF st.end = "Exception"
  THEN IF st.peak >= memory_limit
       THEN <<CodeResult(st.ticks, st.peak, MLE, st.out, st.msg)>>
       ELSE <<CodeResult(st.ticks, st.peak, RTE, st.out, st.msg)>>
  ELSE IF st.end = "returned"
  THEN <<CodeResult(st.ticks, st.peak, OK, st.out, None)>>
  ELSE <<>>

\* the CodeResults run_code puts on the queue: one, or none at all
RunCodeResult(st) ==
  IF st.end = "Exception"
  THEN IF st.peak >= memory_limit
       THEN <<CodeResult(st.ticks, st.peak, MLE, None, st.msg)>>
       ELSE <<CodeResult(st.ticks, st.peak, RTE, None, st.msg)>>
  ELSE IF st.end = "returned"
  THEN <<CodeResult(st.ticks, st.peak, OK, st.out, None)>>
  ELSE <<>>

run_code(code, case, globals) ==
  LET st == Exec(Program(code), ExecStart(case, globals)) IN
  [end |-> st.end, deaf |-> st.deaf, globals |-> st.globals, peak |-> st.peak,
   out |-> st.out, put |-> RunCodeResult(st)]

----------------------------------------------------------------------------
(* _run_code_wrapper: what the scheduling process does with one request *)

\* (mutant) the verdict abbreviated as in CodeResult's comment
TimeoutResultAbbreviated == CodeResult(time_limit, 0, "TLE", None, None)

\* p.is_alive() after the join: terminate and report the timeout
TimeoutResult == CodeResult(time_limit, 0, TLE, None, None)

\* output_queue.get(timeout=1) raised queue.Empty, whose str() is ""
EmptyQueueResult == CodeResult(0, 0, RTE, None, "")

\* output_queue.get(timeout=1) on the queue of a worker that has exited
\* (mutant) the read gives up although the queue holds the worker's result
QueueGetGivesUp(q) == EmptyQueueResult
QueueGet(q) == IF q # <<>> THEN Head(q) ELSE EmptyQueueResult

\* (mutant) one long-lived worker process per pool slot
SpawnPidPerSlot(s) == s

\* multiprocessing.Process(target=run_code, ...): a new process per call
SpawnPid(s) == Cardinality(DOMAIN proc) + 1

\* (mutant) the snippet is exec()ed in the scheduling process itself
GlobalsAfterExecInProcess(parentGlobals, childGlobals) == childGlobals

\* the scheduling process's default_globals after p.start(): the snippet ran
\* in the child, the parent's module state is untouched
GlobalsAfterStart(parentGlobals, childGlobals) == parentGlobals

Idle(g) == [pc |-> "idle", req |-> 0, pid |-> 0, globals |-> g]

Requests == 1..Len(args_list)
\* (mutant) a worker counts as alive until its wrapper has returned
AliveUntilCollected(p) == TRUE
Alive(p) == proc[p].st # "exited"
LiveWorkers == {p \in DOMAIN proc : Alive(p)}

\* (mutant) the timeout branch forgets the worker
TerminateForgotten(p) == proc

\* p.terminate(): SIGTERM is sent to the worker, and nothing waits for it
Terminate(p) == [proc EXCEPT ![p].sigterm = TRUE]

----------------------------------------------------------------------------
(* The entry points *)

\* (mutant) the results gathered as the wrappers return
MapResultsAsCompleted(fs, order) == [k \in 1..Len(order) |-> Head(fs[order[k]])]

\* list(executor.map(_run_code_wrapper, args_list)): results in submission order
MapResults(fs, order) == [i \in 1..Len(fs) |-> Head(fs[i])]

\* (mutant) the results gathered as they complete (asyncio.as_completed)
AsyncResultsAsCompleted(fs, order) == [k \in 1..Len(order) |-> Head(fs[order[k]])]

\* results = await loop.run_in_executor(None, lambda: list(executor.map(...)))
AsyncResults(fs, order) == MapResults(fs, order)

\* max_workers as test_code_multi_cases computes it (processes = 8); the
\* argument is <<>> for None, <<k>> for k
PoolSize(arg, n) == IF arg = <<>> THEN (IF n < 8 THEN n ELSE 8) ELSE arg[1]

CasesUpTo(n) == UNION {[1..k -> Inputs] : k \in 0..n}

\* the event-loop thread is running the coroutine's own code: up to the await,
\* and again from its resumption (the exit of the with-block) to its return
LoopBusy(f) == f \in {"called", "shutdown"}

\* resume_generation is not running
NoResume ==
  /\ existing_responses = {}
  /\ output_file = <<>>
  /\ remaining_problems = <<>>
  /\ tasks = <<>>
  /\ resume = "none"

\* what is the same for every entry point once the requests are laid out
InitEngine ==
  /\ pool = "none"
  /\ facade = IF entry = "async" THEN "called" ELSE "none"
  /\ other = 0
  /\ nextTask = 1
  /\ slot = IF entry = "single" THEN [s \in 1..1 |-> Idle(CleanGlobals)] ELSE <<>>
  /\ proc = <<>>
  /\ queue = [i \in Requests |-> <<>>]
  /\ futures = [i \in Requests |-> <<>>]
  /\ completed = <<>>
  /\ results = NotYet
  /\ stats = NotYet
  /\ trace = ""
  /\ extracted_code = NotYet
  /\ NoResume

Init ==
  /\ entry \in {"single", "multi", "async"}
  /\ \E code \in Codes, cs \in CasesUpTo(MaxCases), mw \in {<<>>} \cup {<<k>> : k \in 1..MaxPool} :
       /\ entry = "single" => Len(cs) = 1 /\ mw = <<>>
       /\ codes = <<code>>
       /\ cases = cs
       /\ args_list = [i \in 1..Len(cs) |-> [code |-> code, case |-> cs[i]]]
       /\ max_workers = IF entry = "single" THEN 1 ELSE PoolSize(mw, Len(cs))
  /\ code_indices = <<>>
  /\ self_memory_limit = memory_limit
  /\ InitEngine

\* (mutant) the pool is made whether or not there is a request
PoolStartUnguarded ==
  /\ entry # "single"
  /\ results = NotYet
  /\ pool = "none"
  /\ pool' = "up"
  /\ slot' = [s \in 1..max_workers |-> Idle(CleanGlobals)]
  /\ facade' = IF entry = "async" THEN "awaiting" ELSE facade
  /\ UNCHANGED <<call, stats, generation, other, nextTask, proc, queue, futures, completed, results>>

\* `with ProcessPoolExecutor(max_workers) as executor` and the submission of
\* the map, reached only past the test for an empty batch; the async entry
\* hands the map to a thread of the loop's default executor and awaits it
PoolStart ==
  /\ entry # "single"
  /\ results = NotYet
  /\ args_list # <<>>
  /\ pool = "none"
  /\ pool' = "up"
  /\ slot' = [s \in 1..max_workers |-> Idle(CleanGlobals)]
  /\ facade' = IF entry = "async" THEN "awaiting" ELSE facade
  /\ UNCHANGED <<call, stats, generation, other, nextTask, proc, queue, futures, completed, results>>

\* (mutant) the first request is submitted a second time
WrapperStartRetries(s) ==
  /\ results = NotYet
  /\ slot[s].pc = "idle"
  /\ nextTask \in Requests
  /\ LET a == args_list[nextTask]
         pid == SpawnPid(s)
         run == run_code(a.code, a.case, slot[s].globals)
     IN /\ proc' = [p \in DOMAIN proc \cup {pid} |->
                      IF p = pid
                      THEN [req |-> nextTask, st |-> "running", sigterm |-> FALSE,
                            wrote |-> FALSE, overran |-> FALSE,
                            ran |-> (IF p \in DOMAIN proc THEN proc[p].ran ELSE <<>>)
                                      \o <<nextTask>>,
                            run |-> run]
                      ELSE proc[p]]
        /\ slot' = [slot EXCEPT ![s] =
                      [pc |-> "join", req |-> nextTask, pid |-> pid,
                       globals |-> GlobalsAfterStart(slot[s].globals, run.globals)]]
        /\ queue' = [queue EXCEPT ![nextTask] = <<>>]
  /\ nextTask' = IF DOMAIN proc = {} THEN nextTask ELSE nextTask + 1
  /\ UNCHANGED <<call, stats, generation, pool, facade, other, futures, completed, results>>

\* lines 159-167: take the next request, make its queue, start its worker
WrapperStart(s) ==
  /\ results = NotYet
  /\ slot[s].pc = "idle"
  /\ nextTask \in Requests
  /\ LET a == args_list[nextTask]
         pid == SpawnPid(s)
         run == run_code(a.code, a.case, slot[s].globals)
     IN /\ proc' = [p \in DOMAIN proc \cup {pid} |->
                      IF p = pid
                      THEN [req |-> nextTask, st |-> "running", sigterm |-> FALSE,
                            wrote |-> FALSE, overran |-> FALSE,
                            ran |-> (IF p \in DOMAIN proc THEN proc[p].ran ELSE <<>>)
                                      \o <<nextTask>>,
                            run |-> run]
                      ELSE proc[p]]
        /\ slot' = [slot EXCEPT ![s] =
                      [pc |-> "join", req |-> nextTask, pid |-> pid,
                       globals |-> GlobalsAfterStart(slot[s].globals, run.globals)]]
        /\ queue' = [queue EXCEPT ![nextTask] = <<>>]
  /\ nextTask' = nextTask + 1
  /\ UNCHANGED <<call, stats, generation, pool, facade, other, futures, completed, results>>

\* (mutant) the failure paths fall through to the put of the success path
WorkerPutTwice(p) ==
  /\ proc[p].st = "running"
  /\ proc[p].run.put # <<>>
  /\ queue' = [queue EXCEPT ![proc[p].req] = @ \o proc[p].run.put \o proc[p].run.put]
  /\ proc' = [proc EXCEPT ![p].st = "wrote", ![p].wrote = TRUE]
  /\ UNCHANGED <<call, stats, generation, pool, facade, other, nextTask, slot, futures, completed, results>>

\* run_code lines 124, 133, 151: output_queue.put(result, False)
WorkerPut(p) ==
  /\ proc[p].st = "running"
  /\ proc[p].run.put # <<>>
  /\ queue' = [queue EXCEPT ![proc[p].req] = @ \o proc[p].run.put]
  /\ proc' = [proc EXCEPT ![p].st = "wrote", ![p].wrote = TRUE]
  /\ UNCHANGED <<call, stats, generation, pool, facade, other, nextTask, slot, futures, completed, results>>

\* the worker process ends: run_code returned after its put, or an exception
\* that `except Exception` does not catch left it, or the process died
WorkerExit(p) ==
  /\ \/ proc[p].st = "wrote"
     \/ proc[p].st = "running" /\ proc[p].run.end \in {"BaseException", "died"}
  /\ proc' = [proc EXCEPT ![p].st = "exited"]
  /\ UNCHANGED <<call, stats, generation, pool, facade, other, nextTask, slot, queue, futures, completed, results>>

\* SIGTERM sent by p.terminate() (line 172) reaches a worker that has not
\* changed the signal's disposition
WorkerKilled(p) ==
  /\ Alive(p)
  /\ proc[p].sigterm
  /\ ~proc[p].run.deaf
  /\ proc' = [proc EXCEPT ![p].st = "exited"]
  /\ UNCHANGED <<call, stats, generation, pool, facade, other, nextTask, slot, queue, futures, completed, results>>

\* line 168: p.join(timeout=time_limit) returns, the worker having exited or
\* time_limit having elapsed with the worker still running
JoinReturns(s) ==
  /\ slot[s].pc = "join"
  /\ slot' = [slot EXCEPT ![s].pc = "check"]
  /\ proc' = [proc EXCEPT ![slot[s].pid].overran = Alive(slot[s].pid)]
  /\ UNCHANGED <<call, stats, generation, pool, facade, other, nextTask, queue, futures, completed, results>>

\* the wrapper returns r for the request of slot s
Return(s, r) ==
  /\ futures' = [futures EXCEPT ![slot[s].req] = Append(@, r)]
  /\ completed' = Append(completed, slot[s].req)
  /\ slot' = [slot EXCEPT ![s] = Idle(slot[s].globals)]
  /\ results' = IF entry = "single" THEN <<r>> ELSE results

\* lines 171-177: the worker is alive at the check
WrapperTimeout(s) ==
  /\ slot[s].pc = "check"
  /\ Alive(slot[s].pid)
  /\ proc' = Terminate(slot[s].pid)
  /\ Return(s, TimeoutResult)
  /\ UNCHANGED <<call, stats, generation, pool, facade, other, nextTask, queue>>

\* (mutant) p.terminate() is called after the join whatever p.is_alive() says
WrapperCollectTerminates(s) ==
  /\ slot[s].pc = "check"
  /\ ~Alive(slot[s].pid)
  /\ queue' = [queue EXCEPT ![slot[s].req] = IF @ = <<>> THEN @ ELSE Tail(@)]
  /\ proc' = [proc EXCEPT ![slot[s].pid].sigterm = TRUE]
  /\ Return(s, QueueGet(queue[slot[s].req]))
  /\ UNCHANGED <<call, stats, generation, pool, facade, other, nextTask>>

\* lines 178-188: the worker is not alive at the check
WrapperCollect(s) ==
  /\ slot[s].pc = "check"
  /\ ~Alive(slot[s].pid)
  /\ queue' = [queue EXCEPT ![slot[s].req] = IF @ = <<>> THEN @ ELSE Tail(@)]
  /\ Return(s, QueueGet(queue[slot[s].req]))
  /\ UNCHANGED <<call, stats, generation, pool, facade, other, nextTask, proc>>

\* lines 205-206, 231-232, 262-263: no cases (or no codes): return []
ReturnEmpty ==
  /\ entry # "single"
  /\ results = NotYet
  /\ pool = "none"
  /\ args_list = <<>>
  /\ results' = << <<>> >>
  /\ facade' = IF entry = "async" THEN "returned" ELSE facade
  /\ UNCHANGED <<call, stats, generation, pool, other, nextTask, slot, proc, queue, futures, completed>>

\* lines 215-218: the map is exhausted and the pool has shut down.  A pool
\* process exits only once the worker processes it started have exited.
BatchReturn ==
  /\ entry = "multi"
  /\ results = NotYet
  /\ pool = "up"
  /\ \A i \in Requests : futures[i] # <<>>
  /\ \A p \in DOMAIN proc : ~Alive(p)
  /\ results' = <<MapResults(futures, completed)>>
  /\ pool' = "down"
  /\ UNCHANGED <<call, stats, generation, facade, other, nextTask, slot, proc, queue, futures, completed>>

\* lines 243-247: the thread's list(executor.map(...)) is complete and the
\* loop resumes the coroutine, which leaves the with-block: the executor's
\* shutdown(wait=True) runs on the event-loop thread
AsyncResume ==
  /\ entry = "async"
  /\ facade = "awaiting"
  /\ \A i \in Requests : futures[i] # <<>>
  /\ facade' = "shutdown"
  /\ UNCHANGED <<call, stats, generation, pool, other, nextTask, slot, proc, queue, futures, completed, results>>

\* lines 241-250: the pool has shut down (as in BatchReturn) and the coroutine
\* returns the results
AsyncReturn ==
  /\ entry = "async"
  /\ facade = "shutdown"
  /\ \A p \in DOMAIN proc : ~Alive(p)
  /\ results' = <<AsyncResults(futures, completed)>>
  /\ pool' = "down"
  /\ facade' = "returned"
  /\ UNCHANGED <<call, stats, generation, other, nextTask, slot, proc, queue, futures, completed>>

\* another task of the caller's event loop takes a step: possible whenever the
\* loop's thread is not inside the coroutine of the call
OtherTaskStep ==
  /\ entry = "async"
  /\ facade # "returned"
  /\ ~LoopBusy(facade)
  /\ other' = 1 - other
  /\ UNCHANGED <<call, stats, generation, pool, facade, nextTask, slot, proc, queue, futures, completed, results>>

\* the steps of the engine and of the entry point
EngineNext ==
  \/ PoolStart
  \/ \E s \in DOMAIN slot : WrapperStart(s)
  \/ \E s \in DOMAIN slot : JoinReturns(s)
  \/ \E s \in DOMAIN slot : WrapperTimeout(s)
  \/ \E s \in DOMAIN slot : WrapperCollect(s)
  \/ \E p \in DOMAIN proc : WorkerPut(p)
  \/ \E p \in DOMAIN proc : WorkerExit(p)
  \/ \E p \in DOMAIN proc : WorkerKilled(p)
  \/ ReturnEmpty
  \/ BatchReturn
  \/ AsyncResume
  \/ AsyncReturn

Next ==
  \/ EngineNext
  \/ OtherTaskStep

Spec == Init /\ [][Next]_vars

\* Every process involved is scheduled by the operating system and every wait
\* of the wrapper is a timed one: a step of the engine that is possible is
\* eventually taken (nothing obliges the other task of the loop to run).
FairSpec == Spec /\ WF_vars(EngineNext)

----------------------------------------------------------------------------
(* test_multi_code: every code on every case, as one flat batch *)

\* (mutant) the pairs enumerated case by case
CrossArgsCaseMajor(cds, cs) ==
  [i \in 1..(Len(cds) * Len(cs)) |->
     [code |-> cds[((i - 1) % Len(cds)) + 1], case |-> cs[((i - 1) \div Len(cds)) + 1]]]

\* all_args, lines 266-272: for each code, for each case
CrossArgs(cds, cs) ==
  [i \in 1..(Len(cds) * Len(cs)) |->
     [code |-> cds[((i - 1) \div Len(cs)) + 1], case |-> cs[((i - 1) % Len(cs)) + 1]]]

\* (mutant) each request tagged with the index of its case
CodeIndicesByCase(cds, cs) ==
  [i \in 1..(Len(cds) * Len(cs)) |-> ((i - 1) % Len(cs)) + 1]

\* code_indices, lines 267-272 (codes counted from 1)
CodeIndices(cds, cs) ==
  [i \in 1..(Len(cds) * Len(cs)) |-> ((i - 1) \div Len(cs)) + 1]

\* (mutant) the flat results dealt out to the codes in turn
GroupByCodeInTurn(all_results, idx, m) ==
  [c \in 1..m |->
     LET at == SelectSeq([i \in 1..Len(all_results) |-> i],
                         LAMBDA i : ((i - 1) % m) + 1 = c)
     IN [k \in 1..Len(at) |-> all_results[at[k]]]]

\* results_by_code, lines 282-286: result i is appended to the list of its code
GroupByCode(all_results, idx, m) ==
  [c \in 1..m |->
     LET at == SelectSeq([i \in 1..Len(all_results) |-> i], LAMBDA i : idx[i] = c)
     IN [k \in 1..Len(at) |-> all_results[at[k]]]]

\* max_workers as test_multi_code computes it, lines 275-276
CrossPoolSize(arg, n) ==
  IF arg = <<>> THEN (IF n < CpuCount THEN n ELSE CpuCount) ELSE arg[1]

\* the inputs of the cross-product runs: one that every snippet echoes and one
\* on which one snippet loops for ever
CrossInputs == {<<"hello">>, <<"spin">>}
CodesUpTo(n) == UNION {[1..k -> Codes] : k \in 0..n}
CrossCasesUpTo(n) == UNION {[1..k -> CrossInputs] : k \in 0..n}

\* a call of test_multi_code, or of test_code_single_case on one pair
InitCross ==
  /\ entry \in {"single", "multi_code"}
  /\ \E cds \in CodesUpTo(MaxCodes), cs \in CrossCasesUpTo(MaxCases),
        mw \in {<<>>} \cup {<<k>> : k \in 1..MaxPool} :
       /\ entry = "single" => Len(cds) = 1 /\ Len(cs) = 1 /\ mw = <<>>
       /\ codes = cds
       /\ cases = cs
       /\ args_list = CrossArgs(cds, cs)
       /\ code_indices = IF entry = "single" THEN <<>> ELSE CodeIndices(cds, cs)
       /\ max_workers = IF entry = "single" THEN 1
                         ELSE CrossPoolSize(mw, Len(cds) * Len(cs))
  /\ self_memory_limit = memory_limit
  /\ InitEngine

\* lines 278-286: the map is exhausted, the pool has shut down (as in
\* BatchReturn) and the results are regrouped by code
CrossReturn ==
  /\ entry = "multi_code"
  /\ results = NotYet
  /\ pool = "up"
  /\ \A i \in Requests : futures[i] # <<>>
  /\ \A p \in DOMAIN proc : ~Alive(p)
  /\ results' = <<GroupByCode(MapResults(futures, completed), code_indices, Len(codes))>>
  /\ pool' = "down"
  /\ UNCHANGED <<call, stats, generation, facade, other, nextTask, slot, proc, queue, futures, completed>>

NextCross ==
  \/ PoolStart
  \/ \E s \in DOMAIN slot : WrapperStart(s)
  \/ \E s \in DOMAIN slot : JoinReturns(s)
  \/ \E s \in DOMAIN slot : WrapperTimeout(s)
  \/ \E s \in DOMAIN slot : WrapperCollect(s)
  \/ \E p \in DOMAIN proc : WorkerPut(p)
  \/ \E p \in DOMAIN proc : WorkerExit(p)
  \/ \E p \in DOMAIN proc : WorkerKilled(p)
  \/ ReturnEmpty
  \/ CrossReturn

CrossSpec == InitCross /\ [][NextCross]_vars

----------------------------------------------------------------------------
(* SandboxExecutor.execute_code_multiple_inputs, prompts.py *)

IsSpace(c) == c \in {" ", "\n", "\t"}

\* text.split('\n'), cur being the piece under way
RECURSIVE Split(_, _)
Split(text, cur) ==
  IF text = "" THEN <<cur>>
  ELSE IF Head(text) = "\n" THEN <<cur>> \o Split(Tail(text), "")
  ELSE Split(Tail(text), cur \o Head(text))

\* text.strip()
RECURSIVE LStrip(_)
LStrip(text) ==
  IF text # "" /\ IsSpace(Head(text)) THEN LStrip(Tail(text)) ELSE text
RECURSIVE RStrip(_)
RStrip(text) ==
  IF text # "" /\ IsSpace(SubSeq(text, Len(text), Len(text)))
  THEN RStrip(SubSeq(text, 1, Len(text) - 1))
  ELSE text
Strip(text) == LStrip(RStrip(text))

\* [line.strip() for line in full_output.split('\n') if line.strip()]
OutputLines(full_output) ==
  LET stripped == [i \in DOMAIN Split(full_output, "") |-> Strip(Split(full_output, "")[i])]
  IN SelectSeq(stripped, LAMBDA line : line # "")

\* f"ERROR: {error_msg}"
ErrorTag(error_msg) == "ERROR: " \o error_msg

\* the cases handed to test_code_multi_cases: the first input alone when
\* there are several (line 172), the inputs as they are otherwise (line 216)
SandboxCases(test_inputs) ==
  IF Len(test_inputs) > 1 THEN <<test_inputs[1]>> ELSE test_inputs

\* the "output" fields of what execute_code_multiple_inputs returns, which
\* generate_response stores as generated_outputs
GeneratedOutputs(test_inputs, code_results) ==
  IF Len(test_inputs) > 1
  THEN LET r == code_results[1] IN
       IF r.verdict = OK
       THEN LET output_lines == OutputLines(r.output) IN
            IF Len(output_lines) >= Len(test_inputs)
            THEN [i \in 1..Len(test_inputs) |-> output_lines[i]]
            ELSE [i \in 1..Len(test_inputs) |->
                    IF output_lines # <<>> THEN output_lines[1] ELSE ""]
       ELSE [i \in 1..Len(test_inputs) |-> ErrorTag(r.error)]
  ELSE [i \in 1..Len(code_results) |->
          LET r == code_results[i] IN
          IF r.verdict = OK THEN Strip(r.output)
          ELSE ErrorTag(IF r.error \in {None, ""} THEN r.verdict ELSE r.error)]

\* a call of execute_code_multiple_inputs(code, test_inputs); it calls
\* test_code_multi_cases with processes=1
\* the memory limits a SandboxExecutor is built with: the default, and half
ConfiguredLimits == {memory_limit \div 2, memory_limit}

\* the test inputs of the sandbox: those of the engine and the input on which
\* the snippet fails with its peak at half the default limit
SandboxCasesUpTo(n) == UNION {[1..k -> Inputs \cup {<<"half">>}] : k \in 0..n}

InitSandbox ==
  /\ entry = "sandbox"
  /\ \E code \in Codes, test_inputs \in SandboxCasesUpTo(MaxCases) :
       /\ codes = <<code>>
       /\ cases = test_inputs
       /\ args_list = [i \in 1..Len(SandboxCases(test_inputs)) |->
                         [code |-> code, case |-> SandboxCases(test_inputs)[i]]]
       /\ max_workers = IF Len(test_inputs) < 1 THEN Len(test_inputs) ELSE 1
  /\ code_indices = <<>>
  /\ self_memory_limit \in ConfiguredLimits
  /\ InitEngine

\* test_code_multi_cases returns (as in BatchReturn) and its results are
\* turned into the generated outputs
SandboxReturn ==
  /\ entry = "sandbox"
  /\ results = NotYet
  /\ pool = "up"
  /\ \A i \in Requests : futures[i] # <<>>
  /\ \A p \in DOMAIN proc : ~Alive(p)
  /\ results' = <<GeneratedOutputs(cases, MapResults(futures, completed))>>
  /\ pool' = "down"
  /\ UNCHANGED <<call, stats, generation, facade, other, nextTask, slot, proc, queue, futures, completed>>

\* the counts of a ConfusionMatrix
ConfusionMatrix(tp, tn, fp, fn) ==
  [true_positives |-> tp, true_negatives |-> tn,
   false_positives |-> fp, false_negatives |-> fn]

\* str.lower(), letter by letter
LowerOf ==
  [c \in {"A", "B", "C", "D", "E", "F", "G", "H", "I", "J", "K", "L", "M",
          "N", "O", "P", "Q", "R", "S", "T", "U", "V", "W", "X", "Y", "Z"} |->
     CASE c = "A" -> "a" [] c = "B" -> "b" [] c = "C" -> "c" [] c = "D" -> "d"
       [] c = "E" -> "e" [] c = "F" -> "f" [] c = "G" -> "g" [] c = "H" -> "h"
       [] c = "I" -> "i" [] c = "J" -> "j" [] c = "K" -> "k" [] c = "L" -> "l"
       [] c = "M" -> "m" [] c = "N" -> "n" [] c = "O" -> "o" [] c = "P" -> "p"
       [] c = "Q" -> "q" [] c = "R" -> "r" [] c = "S" -> "s" [] c = "T" -> "t"
       [] c = "U" -> "u" [] c = "V" -> "v" [] c = "W" -> "w" [] c = "X" -> "x"
       [] c = "Y" -> "y" [] c = "Z" -> "z"]

\* str.lower()
RECURSIVE ToLower(_)
ToLower(text) ==
  IF text = "" THEN ""
  ELSE (IF Head(text) \in DOMAIN LowerOf THEN LowerOf[Head(text)] ELSE Head(text))
       \o ToLower(Tail(text))

\* confusion_matrix_utils.normalize_output
normalize_output(output) ==
  IF output = "" THEN ""
  ELSE LET normalized == ToLower(Strip(output)) IN
       IF normalized \in {"n/a", "na", "none", "null", "error", "no_code_extracted"}
       THEN ""
       ELSE normalized

\* confusion_matrix_utils.is_empty_or_error
is_empty_or_error(output) == normalize_output(output) = ""

\* the cell of the confusion matrix one test case is counted in
Classify(expected, generated) ==
  LET expected_norm == normalize_output(expected)
      generated_norm == normalize_output(generated)
      expected_empty == is_empty_or_error(expected_norm)
      generated_empty == is_empty_or_error(generated_norm)
  IN IF expected_empty /\ generated_empty THEN "TN"
     ELSE IF expected_empty /\ ~generated_empty THEN "FP"
     ELSE IF ~expected_empty /\ generated_empty THEN "FN"
     ELSE IF expected_norm = generated_norm THEN "TP"
     ELSE "FP"

\* confusion_matrix_utils.calculate_confusion_matrix_stats (the four counts)
calculate_confusion_matrix_stats(expected_outputs, generated_outputs) ==
  LET Count(cell) ==
        Cardinality({i \in 1..Len(expected_outputs) :
                       Classify(expected_outputs[i], generated_outputs[i]) = cell})
  IN ConfusionMatrix(Count("TP"), Count("TN"), Count("FP"), Count("FN"))

\* the expected outputs a response record can carry next to its generated ones
ExpectedOutputs == {"hello", "boom", ""}

\* add_confusion_matrix_to_file, one response: the generated outputs of the
\* call are scored against the expected outputs of the record
Score ==
  /\ entry = "sandbox"
  /\ results # NotYet
  /\ stats = NotYet
  /\ results[1] # <<>>
  /\ \E expected_outputs \in [1..Len(results[1]) -> ExpectedOutputs] :
       stats' = <<calculate_confusion_matrix_stats(expected_outputs, results[1])>>
  /\ UNCHANGED <<call, pool, facade, other, nextTask, slot, proc, queue,
                 futures, completed, results, generation>>

NextSandbox ==
  \/ PoolStart
  \/ \E s \in DOMAIN slot : WrapperStart(s)
  \/ \E s \in DOMAIN slot : JoinReturns(s)
  \/ \E s \in DOMAIN slot : WrapperTimeout(s)
  \/ \E s \in DOMAIN slot : WrapperCollect(s)
  \/ \E p \in DOMAIN proc : WorkerPut(p)
  \/ \E p \in DOMAIN proc : WorkerExit(p)
  \/ \E p \in DOMAIN proc : WorkerKilled(p)
  \/ ReturnEmpty
  \/ SandboxReturn
  \/ Score

SandboxSpec == InitSandbox /\ [][NextSandbox]_vars

----------------------------------------------------------------------------
(* Vocabulary of the properties *)

Returned == results # <<>>
ReturnValue == results[1]
ResultOf(i) == futures[i][1]
Resolved(i) == futures[i] # <<>>
View(r) == <<r.verdict, r.output, r.error>>

\* what request a can resolve to when it is run alone, in a namespace nothing has
\* touched: the timeout result, or what its own worker left on its own queue
AloneResults(a) ==
  {TimeoutResult, QueueGet(run_code(a.code, a.case, CleanGlobals).put)}

\* every CodeResult handed to a caller so far
HandedBack ==
  {ResultOf(i) : i \in {j \in Requests : Resolved(j)}}
    \cup (IF ~Returned THEN {}
          ELSE IF entry = "single" THEN {ReturnValue}
          ELSE IF entry = "sandbox" THEN {}
          ELSE IF entry = "multi_code"
          THEN UNION {{ReturnValue[m][n] : n \in DOMAIN ReturnValue[m]} :
                        m \in DOMAIN ReturnValue}
          ELSE {ReturnValue[i] : i \in DOMAIN ReturnValue})

----------------------------------------------------------------------------
(* C1: a batch returns one result per request, element i being the result of *)
(* request i, whatever the pool size and the order the workers completed in. *)
C1_OrderPreserved ==
  (entry = "multi" /\ Returned) =>
     /\ Len(ReturnValue) = Len(args_list)
     /\ \A i \in Requests :
          /\ ReturnValue[i] = ResultOf(i)
          /\ ReturnValue[i] \in AloneResults(args_list[i])

\* a batch has returned whose second request completed first, with another result
C1_Witness ==
  /\ entry = "multi" /\ Returned
  /\ Len(args_list) = 2
  /\ completed = <<2, 1>>
  /\ ReturnValue[1] # ReturnValue[2]

C3_AlwaysReturns == <>Returned

\* the batches of C3 in which no snippet changes what SIGTERM does to its worker
C3_NoSnippetIgnoresSigterm ==
  \A i \in Requests : ~run_code(args_list[i].code, args_list[i].case, CleanGlobals).deaf
C3_ReturnsUnlessSigtermIgnored == C3_NoSnippetIgnoresSigterm => <>Returned

C5_LiveWorkersBounded == Cardinality(LiveWorkers) <= max_workers

(* C6 as amended: in every result handed back, output is set exactly when    *)
(* the verdict is OK, and error is unset exactly when the verdict is OK or   *)
(* Time Limit Error.                                                         *)
C6_OutputAndErrorByVerdict ==
  \A r \in HandedBack :
    /\ r.output # None <=> r.verdict = OK
    /\ r.error = None <=> r.verdict \in {OK, TLE}

\* a batch has returned a timeout, which has neither output nor error, next
\* to a result that has one of them
C6_Witness ==
  /\ entry = "multi" /\ Returned
  /\ \E r \in HandedBack : r.verdict = TLE /\ r.output = None /\ r.error = None
  /\ \E r \in HandedBack : r.verdict \in {OK, RTE, MLE}

(* C6 as claimed: output is set iff the verdict is OK, and error is unset    *)
(* iff the verdict is OK.                                                    *)
C6_ErrorUnsetOnlyWhenOK ==
  \A r \in HandedBack :
    /\ r.output # None <=> r.verdict = OK
    /\ r.error = None <=> r.verdict = OK

(* C7: when a request's result is handed back by the wrapper, the request's  *)
(* worker process is no longer alive.                                        *)
C7_WorkerDeadAtHandBack ==
  \A p \in DOMAIN proc : Resolved(proc[p].req) => ~Alive(p)

(* C8: every request runs in a worker process started for it alone; no       *)
(* worker process runs the snippet of a second request.                      *)
C8_FreshWorkerPerRequest ==
  /\ \A p \in DOMAIN proc : proc[p].ran = <<proc[p].req>>
  /\ \A p, q \in DOMAIN proc : proc[p].req = proc[q].req => p = q
  /\ \A i \in Requests : i < nextTask => \E p \in DOMAIN proc : proc[p].req = i

\* a pool of one process has run two requests, one after the other
C8_Witness ==
  /\ entry = "multi" /\ max_workers = 1
  /\ Cardinality(DOMAIN proc) = 2
  /\ \A i \in Requests : Resolved(i)

(* C9: a request's verdict, output and error are those it can get when run   *)
(* alone in an untouched namespace: nothing the other requests of the batch  *)
(* do (crash, hang, redirect, mutate the namespace) changes them.  Two runs  *)
(* that differ only in request j therefore agree on every other request, up  *)
(* to that request's own race with its deadline.                             *)
C9_Isolation ==
  \A i \in Requests :
    Resolved(i) => View(ResultOf(i)) \in {View(r) : r \in AloneResults(args_list[i])}

\* one pool process ran a snippet that rewrites the namespace and then one
\* that prints what it finds there
C9_Witness ==
  /\ entry = "multi" /\ max_workers = 1 /\ Len(args_list) = 2
  /\ args_list[1] = [code |-> "branch", case |-> <<"set">>]
  /\ args_list[2] = [code |-> "branch", case |-> <<"probe">>]
  /\ Resolved(1) /\ ResultOf(1).output = "set\nset\n"
  /\ Resolved(2) /\ ResultOf(2).output = "clean\nprobe\n"

(* C10: whatever exception the snippet raises, the worker writes a result to *)
(* the channel before it ends.                                               *)
C10_FaultsBecomeResults ==
  \A p \in DOMAIN proc :
    (proc[p].st = "exited" /\ ~proc[p].sigterm
       /\ proc[p].run.end \in {"Exception", "BaseException"}) => proc[p].wrote

(* C11: when the wrapper finds the worker dead and its queue empty, the       *)
(* request's result is Runtime Error and its error field is a non-empty      *)
(* message that explains what happened.                                      *)
C11_EmptyChannelExplained ==
  \A p \in DOMAIN proc :
    (Resolved(proc[p].req) /\ ~proc[p].wrote /\ ~proc[p].sigterm) =>
       /\ ResultOf(proc[p].req).verdict = RTE
       /\ ResultOf(proc[p].req).error \notin {None, ""}

(* C12: a snippet that raises an unhandled error, its peak memory below the  *)
(* limit, gets Runtime Error with a non-empty error string and no output.    *)
C12_RaiseGivesNonEmptyError ==
  \A p \in DOMAIN proc :
    (Resolved(proc[p].req) /\ proc[p].wrote /\ ~proc[p].sigterm
       /\ proc[p].run.end = "Exception" /\ proc[p].run.peak < memory_limit) =>
       /\ ResultOf(proc[p].req).verdict = RTE
       /\ ResultOf(proc[p].req).error \notin {None, ""}
       /\ ResultOf(proc[p].req).output = None

(* C13: whenever the snippet has driven the worker's peak memory above       *)
(* memory_limit and the request did not time out, the verdict is Memory      *)
(* Limit Error.                                                              *)
C13_OverLimitIsMLE ==
  \A p \in DOMAIN proc :
    (Resolved(proc[p].req) /\ proc[p].wrote /\ ~proc[p].sigterm
       /\ proc[p].run.peak > memory_limit) =>
       ResultOf(proc[p].req).verdict = MLE

(* C14: a snippet that completes normally, its worker found dead at the      *)
(* check, gets OK with exactly the text it printed as output and no error;   *)
(* its input() calls are served the lines of the request's input in order:   *)
(* print(input()) on "hello" gives "hello\n", and a snippet that prints two  *)
(* lines it reads from "two\nhello" gives "two\nhello\n".                    *)
C14_NormalCompletionIsOK ==
  \A p \in DOMAIN proc :
    LET a == args_list[proc[p].req] IN
    (Resolved(proc[p].req) /\ ~proc[p].sigterm /\ proc[p].run.end = "returned") =>
       /\ View(ResultOf(proc[p].req)) = <<OK, proc[p].run.out, None>>
       /\ a.code = "echo" => ResultOf(proc[p].req).output = a.case[1] \o "\n"
       /\ a = [code |-> "echo", case |-> <<"hello">>] =>
            ResultOf(proc[p].req).output = "hello\n"
       /\ a = [code |-> "branch", case |-> <<"two", "hello">>] =>
            ResultOf(proc[p].req).output = "two\nhello\n"

\* one batch has run the echo on "hello" and the two-line reader on "two\nhello"
C14_Witness ==
  /\ Len(args_list) = 2
  /\ \E i, j \in Requests :
       /\ args_list[i].case = <<"hello">>
       /\ args_list[j].case = <<"two", "hello">>
       /\ Resolved(i) /\ ResultOf(i).verdict = OK /\ ResultOf(i).output = "hello\n"
       /\ Resolved(j) /\ ResultOf(j).verdict = OK /\ ResultOf(j).output = "two\nhello\n"

(* C15: a batch call with no request, blocking or async, has one step to     *)
(* take, the return of the empty list; no pool is made and no worker process *)
(* is started.                                                               *)
C15_EmptyBatchStartsNothing ==
  (entry \in {"multi", "async"} /\ args_list = <<>>) =>
     /\ pool = "none" /\ slot = <<>> /\ proc = <<>>
     /\ IF Returned THEN ReturnValue = <<>> ELSE ENABLED ReturnEmpty

\* the async entry has returned from a call without cases
C15_Witness ==
  /\ entry = "async" /\ cases = <<>>
  /\ Returned /\ ReturnValue = <<>> /\ facade = "returned"

(* C18: the async entry returns what the blocking entry returns (C1): one    *)
(* result per request, element i being the result the wrapper gave request   *)
(* i, which is either the timeout result or what the request's own worker    *)
(* wrote; the blocking entry on the same arguments is held to the same.      *)
C18_AsyncSameAsBlocking ==
  (entry \in {"async", "multi"} /\ Returned) =>
     /\ Len(ReturnValue) = Len(cases)
     /\ \A i \in 1..Len(cases) :
          /\ ReturnValue[i] = ResultOf(i)
          /\ ReturnValue[i] \in AloneResults([code |-> codes[1], case |-> cases[i]])

\* the async entry has returned a batch whose second request completed first
\* and whose first request timed out
C18_Witness ==
  /\ entry = "async" /\ Returned
  /\ completed = <<2, 1>>
  /\ ReturnValue[1].verdict = TLE /\ ReturnValue[2].verdict = OK

(* C19: while a call of the async entry is in flight the event loop is not   *)
(* blocked: another task of the loop can take a step, or the call itself can *)
(* still advance; and the coroutine is resumed only when every request of    *)
(* the batch has its result.                                                 *)
C19_LoopNotBlocked ==
  /\ (entry = "async" /\ facade \in {"awaiting", "shutdown"}) =>
        (ENABLED OtherTaskStep \/ ENABLED EngineNext)
  /\ (entry = "async" /\ facade \in {"shutdown", "returned"}) =>
        \A i \in Requests : Resolved(i)

(* C16 as amended: test_multi_code on M >= 1 codes and N >= 1 cases returns  *)
(* M entries of length N each, entry [m][n] being the result the wrapper     *)
(* gave the request made of codes[m] and cases[n], whatever order the        *)
(* requests completed in; without codes or without cases it returns the      *)
(* empty list.                                                               *)
C16_GroupedByCode ==
  (entry = "multi_code" /\ Returned) =>
     IF codes = <<>> \/ cases = <<>>
     THEN ReturnValue = <<>>
     ELSE /\ Len(ReturnValue) = Len(codes)
          /\ \A m \in 1..Len(codes) :
               /\ Len(ReturnValue[m]) = Len(cases)
               /\ \A n \in 1..Len(cases) :
                    LET i == (m - 1) * Len(cases) + n IN
                    /\ args_list[i] = [code |-> codes[m], case |-> cases[n]]
                    /\ \E p \in DOMAIN proc : proc[p].req = i
                    /\ ReturnValue[m][n] = ResultOf(i)

\* two codes on two cases have returned, the requests having completed out of
\* order and the two codes having got different results
C16_Witness ==
  /\ entry = "multi_code" /\ Returned
  /\ Len(codes) = 2 /\ Len(cases) = 2
  /\ completed[1] = 2 /\ completed[4] = 3
  /\ ReturnValue[1] # ReturnValue[2]
  /\ ReturnValue[1][1] # ReturnValue[1][2]

(* C16 as claimed: for every M and N the returned collection has M entries,  *)
(* each of length N, entry [m][n] being the result of (codes[m], cases[n]).  *)
C16_AlwaysMEntries ==
  (entry = "multi_code" /\ Returned) =>
     /\ Len(ReturnValue) = Len(codes)
     /\ \A m \in 1..Len(codes) :
          /\ Len(ReturnValue[m]) = Len(cases)
          /\ \A n \in 1..Len(cases) :
               ReturnValue[m][n] = ResultOf((m - 1) * Len(cases) + n)

(* C17: entry [m][n] of test_multi_code has a verdict, output and error that *)
(* test_code_single_case can return for (codes[m], cases[n]): those of the   *)
(* timeout result or of what the pair's worker writes when it runs alone;    *)
(* and test_code_single_case returns nothing else.                           *)
C17_SameAsSingleRuns ==
  /\ (entry = "single" /\ Returned) =>
        View(ReturnValue) \in
          {View(r) : r \in AloneResults([code |-> codes[1], case |-> cases[1]])}
  /\ (entry = "multi_code" /\ Returned) =>
        \A m \in DOMAIN ReturnValue : \A n \in DOMAIN ReturnValue[m] :
          View(ReturnValue[m][n]) \in
            {View(r) : r \in AloneResults([code |-> codes[m], case |-> cases[n]])}

\* two codes that differ on "spin" have been run on it and on "hello" by one
\* pool process
C17_Witness ==
  /\ entry = "multi_code" /\ Returned /\ max_workers = 1
  /\ codes = <<"branch", "echo">> /\ cases = << <<"spin">>, <<"hello">> >>
  /\ View(ReturnValue[1][1]) = <<TLE, None, None>>
  /\ View(ReturnValue[2][1]) = <<OK, "spin\n", None>>
  /\ View(ReturnValue[1][2]) = <<OK, "hello\n", None>>

(* C20: generated output i of execute_code_multiple_inputs comes from the    *)
(* execution of the code on input i: it is the output text of a result that  *)
(* execution can have when the verdict is OK (as captured, or stripped), and *)
(* a string tagged "ERROR: " when the verdict is any other.                  *)
C20_OutputFromOwnInput ==
  (entry = "sandbox" /\ Returned) =>
     /\ Len(ReturnValue) = Len(cases)
     /\ \A i \in 1..Len(cases) :
          \E r \in AloneResults([code |-> codes[1], case |-> cases[i]]) :
            IF r.verdict = OK
            THEN ReturnValue[i] \in {r.output, Strip(r.output)}
            ELSE Len(ReturnValue[i]) >= 7 /\ SubSeq(ReturnValue[i], 1, 7) = "ERROR: "

(* what does hold: with one input, or for the first of several when the code *)
(* prints one line, the generated output comes from that input's execution.  *)
C20_SingleInputFromOwnInput ==
  (entry = "sandbox" /\ Returned /\ Len(cases) = 1) =>
     /\ Len(ReturnValue) = 1
     /\ \E r \in AloneResults([code |-> codes[1], case |-> cases[1]]) :
          IF r.verdict = OK
          THEN ReturnValue[1] = Strip(r.output)
          ELSE Len(ReturnValue[1]) >= 7 /\ SubSeq(ReturnValue[1], 1, 7) = "ERROR: "

----------------------------------------------------------------------------
(* extract_python_code (prompts.py), applied to the text of a response *)

\* longest response, in lines
MaxLines == 6

\* the fence of a code block; the backquote of the source is written ' here,
\* a character the responses of the model do not use otherwise
Fence == "'''"
\* the opening of the pattern
Opening == Fence \o "python"
\* the closing of the pattern
Closing == "\n" \o Fence

\* the lines a response is made of
TraceLines == {Opening, Fence, "a", " b ", ""}

\* '\n'.join(lines)
RECURSIVE Join(_)
Join(lines) ==
  IF lines = <<>> THEN ""
  ELSE IF Len(lines) = 1 THEN lines[1]
  ELSE lines[1] \o "\n" \o Join(Tail(lines))

\* the text from position i on
From(text, i) == SubSeq(text, i, Len(text))

StartsWith(text, prefix) ==
  Len(text) >= Len(prefix) /\ SubSeq(text, 1, Len(prefix)) = prefix

\* the first position >= i where piece starts in text, 0 when there is none
RECURSIVE Find(_, _, _)
Find(text, piece, i) ==
  IF i + Len(piece) - 1 > Len(text) THEN 0
  ELSE IF SubSeq(text, i, i + Len(piece) - 1) = piece THEN i
  ELSE Find(text, piece, i + 1)

\* the length of the run of whitespace that starts at position i
RECURSIVE SpaceRun(_, _)
SpaceRun(text, i) ==
  IF i <= Len(text) /\ IsSpace(SubSeq(text, i, i)) THEN 1 + SpaceRun(text, i + 1) ELSE 0

\* the pattern ```python\s*\n(.*?)\n``` (DOTALL) tried at position i: <<>> when
\* it does not match there, else <<[group, end]>>, end being the position after
\* the match. \s* is greedy: the longest run that leaves a '\n' and a closing
\* '\n```' after it is taken; (.*?) is lazy: it stops at the first '\n```'
MatchAt(text, i) ==
  IF ~StartsWith(From(text, i), Opening) THEN <<>>
  ELSE LET j == i + Len(Opening)
           fits == {n \in 0..SpaceRun(text, j) :
                      /\ j + n <= Len(text)
                      /\ SubSeq(text, j + n, j + n) = "\n"
                      /\ Find(text, Closing, j + n + 1) # 0}
       IN IF fits = {} THEN <<>>
          ELSE LET n == CHOOSE m \in fits : \A k \in fits : k <= m
                   close == Find(text, Closing, j + n + 1)
               IN <<[group |-> SubSeq(text, j + n + 1, close - 1),
                     end |-> close + Len(Closing)]>>

\* re.findall(pattern, text, re.DOTALL): the groups of the matches found
\* scanning from position i on, left to right, without overlap
RECURSIVE FindAll(_, _)
FindAll(text, i) ==
  IF i > Len(text) THEN <<>>
  ELSE IF MatchAt(text, i) = <<>> THEN FindAll(text, i + 1)
  ELSE <<MatchAt(text, i)[1].group>> \o FindAll(text, MatchAt(text, i)[1].end)

\* extract_python_code(text)
extract_python_code(text) ==
  LET matches == FindAll(text, 1)
  IN IF matches # <<>> THEN Strip(matches[Len(matches)]) ELSE None

\* a response arrives
InitExtract ==
  /\ entry = "extract"
  /\ codes = <<>>
  /\ cases = <<>>
  /\ args_list = <<>>
  /\ code_indices = <<>>
  /\ max_workers = 0
  /\ self_memory_limit = memory_limit
  /\ pool = "none"
  /\ facade = "none"
  /\ other = 0
  /\ nextTask = 1
  /\ slot = <<>>
  /\ proc = <<>>
  /\ queue = <<>>
  /\ futures = <<>>
  /\ completed = <<>>
  /\ results = NotYet
  /\ stats = NotYet
  /\ \E lines \in UNION {[1..k -> TraceLines] : k \in 0..MaxLines} : trace = Join(lines)
  /\ extracted_code = NotYet
  /\ NoResume

\* extracted_code = extract_python_code(trace)
ExtractCode ==
  /\ entry = "extract"
  /\ extracted_code = NotYet
  /\ extracted_code' = <<extract_python_code(trace)>>
  /\ UNCHANGED <<call, pool, facade, other, nextTask, slot, proc, queue,
                 futures, completed, results, stats, trace, existing_responses,
                 output_file, remaining_problems, tasks, resume>>

NextExtract == ExtractCode

ExtractSpec == InitExtract /\ [][NextExtract]_vars

----------------------------------------------------------------------------
(* resume_generation.py over ReasoningTraceGenerator.process_problems *)

\* number of problems in validation_problems.json
MaxProblems == 3

\* the problems of validation_problems.json, in the order of the file
all_problems == [i \in 1..MaxProblems |-> i]

PersonaTypes == {"naive", "reasoning"}

\* the keys a response is recorded under
ResponseKeys == (1..MaxProblems) \X PersonaTypes

\* SelectSeq over a sequence whose test is not a single-argument operator
RECURSIVE Missing(_, _)
Missing(problems, existing) ==
  IF problems = <<>> THEN <<>>
  ELSE IF <<Head(problems), "naive">> \notin existing
          \/ <<Head(problems), "reasoning">> \notin existing
       THEN <<Head(problems)>> \o Missing(Tail(problems), existing)
       ELSE Missing(Tail(problems), existing)

\* the two tasks of each problem, in the order they are created
RECURSIVE TasksOf(_)
TasksOf(problems) ==
  IF problems = <<>> THEN <<>>
  ELSE << <<Head(problems), "naive">>, <<Head(problems), "reasoning">> >>
       \o TasksOf(Tail(problems))

\* resume_generation() is called: ../data/responses.jsonl holds some
\* responses, the output file of the generator (responses.jsonl in the
\* working directory) holds some, none of them need be the same
InitResume ==
  /\ entry = "resume"
  /\ codes = <<>>
  /\ cases = <<>>
  /\ args_list = <<>>
  /\ code_indices = <<>>
  /\ max_workers = 0
  /\ self_memory_limit = memory_limit
  /\ pool = "none"
  /\ facade = "none"
  /\ other = 0
  /\ nextTask = 1
  /\ slot = <<>>
  /\ proc = <<>>
  /\ queue = <<>>
  /\ futures = <<>>
  /\ completed = <<>>
  /\ results = NotYet
  /\ stats = NotYet
  /\ trace = ""
  /\ extracted_code = NotYet
  /\ existing_responses \in SUBSET ResponseKeys
  /\ output_file \in {<<>>} \cup {<<key>> : key \in ResponseKeys}
  /\ remaining_problems = <<>>
  /\ tasks = <<>>
  /\ resume = "called"

\* lines 18-65: the problems that miss a naive or a reasoning response are
\* collected; with none left the function returns
FilterCompleted ==
  /\ entry = "resume"
  /\ resume = "called"
  /\ remaining_problems' = Missing(all_problems, existing_responses)
  /\ resume' = IF remaining_problems' = <<>> THEN "returned" ELSE "filtered"
  /\ UNCHANGED <<call, pool, facade, other, nextTask, slot, proc, queue,
                 futures, completed, results, stats, trace, extracted_code,
                 existing_responses, output_file, tasks>>

\* process_problems(json_file, max_problems=len(remaining_problems)): it reads
\* the problems again, keeps the first max_problems of them, clears the
\* output file and creates the two tasks of each
ProcessProblems ==
  /\ entry = "resume"
  /\ resume = "filtered"
  /\ LET max_problems == Len(remaining_problems)
         problems == SubSeq(all_problems, 1, max_problems)
     IN tasks' = TasksOf(problems)
  /\ output_file' = <<>>
  /\ resume' = "generating"
  /\ UNCHANGED <<call, pool, facade, other, nextTask, slot, proc, queue,
                 futures, completed, results, stats, trace, extracted_code,
                 existing_responses, remaining_problems>>

\* generate_response(problem, ...) reads problem.id of a dict: the task
\* raises AttributeError before its try block, `await coro` raises it out of
\* process_problems and out of resume_generation
TaskRaises ==
  /\ entry = "resume"
  /\ resume = "generating"
  /\ resume' = "raised"
  /\ UNCHANGED <<call, pool, facade, other, nextTask, slot, proc, queue,
                 futures, completed, results, stats, trace, extracted_code,
                 existing_responses, output_file, remaining_problems, tasks>>

NextResume ==
  \/ FilterCompleted
  \/ ProcessProblems
  \/ TaskRaises

ResumeSpec == InitResume /\ [][NextResume]_vars

----------------------------------------------------------------------------

(* C21: a generated output that stands for a verdict other than OK, or for   *)
(* an empty captured output, is never counted as a true positive or a false  *)
(* positive: the positives of a scored response are at most its outputs      *)
(* that stand for an OK verdict with a captured text.                        *)
C21_NoAnswerNeverPositive ==
  (entry = "sandbox" /\ stats # NotYet) =>
     LET from(i) == ResultOf(IF Len(cases) > 1 THEN 1 ELSE i)
         answered == {i \in 1..Len(ReturnValue) :
                        from(i).verdict = OK /\ Strip(from(i).output) # ""}
     IN stats[1].true_positives + stats[1].false_positives <= Cardinality(answered)

\* The python blocks of a text read line by line: a line ```python opens a
\* block, the next line ``` closes it, the lines between are its contents.
\* Blocks(lines, inside, body) is <<ok, the lines of each closed block>>; ok is
\* FALSE when a fence is out of place (a ``` outside a block, a ```python
\* inside one, a block left open at the end).
RECURSIVE Blocks(_, _, _)
Blocks(lines, inside, body) ==
  IF lines = <<>> THEN <<~inside, <<>>>>
  ELSE LET line == Head(lines) IN
       IF ~inside
       THEN IF line = Opening THEN Blocks(Tail(lines), TRUE, <<>>)
            ELSE IF line = Fence THEN <<FALSE, <<>>>>
            ELSE Blocks(Tail(lines), FALSE, <<>>)
       ELSE IF line = Fence
            THEN LET rest == Blocks(Tail(lines), FALSE, <<>>)
                 IN <<rest[1], <<body>> \o rest[2]>>
            ELSE IF line = Opening THEN <<FALSE, <<>>>>
            ELSE Blocks(Tail(lines), TRUE, Append(body, line))

(* C22: for a text whose fences pair up into python blocks,                  *)
(* extract_python_code returns the stripped contents of the last block, and  *)
(* None when there is no block.                                              *)
C22_LastBlockExtracted ==
  (entry = "extract" /\ extracted_code # NotYet) =>
     LET parsed == Blocks(Split(trace, ""), FALSE, <<>>)
         blocks == parsed[2]
     IN parsed[1] =>
          extracted_code[1] = IF blocks = <<>> THEN None
                              ELSE Strip(Join(blocks[Len(blocks)]))

\* the same for the texts each of whose blocks has a line that is not blank
\* (holds)
C22_LastBlockExtractedUnlessBlank ==
  (entry = "extract" /\ extracted_code # NotYet) =>
     LET parsed == Blocks(Split(trace, ""), FALSE, <<>>)
         blocks == parsed[2]
     IN (parsed[1] /\ \A k \in DOMAIN blocks : Strip(Join(blocks[k])) # "") =>
          extracted_code[1] = IF blocks = <<>> THEN None
                              ELSE Strip(Join(blocks[Len(blocks)]))

(* C23: resume_generation calls generate_response for no (problem_id, type) *)
(* pair that has a recorded response, and only for problems that miss a      *)
(* naive or a reasoning response.                                            *)
C23_OnlyMissingProcessed ==
  entry = "resume" =>
     \A k \in DOMAIN tasks :
        /\ tasks[k] \notin existing_responses
        /\ \E j \in DOMAIN remaining_problems : remaining_problems[j] = tasks[k][1]

\* every response in the generator's output file stays in it (fails as well:
\* process_problems clears the file)
C23_OutputFileKept ==
  [][entry = "resume" =>
       \A k \in DOMAIN output_file :
          k \in DOMAIN output_file' /\ output_file'[k] = output_file[k]]_vars

(* C24: a worker whose snippet raised and went uncaught, and that ended      *)
(* without being terminated, has written one result: Memory Limit Error when its peak is at or above the memory limit  *)
(* configured for the request, Runtime Error otherwise, with the failure's   *)
(* text as error and no output.                                              *)
C24_FailureVerdictByLimit ==
  entry = "sandbox" =>
     \A p \in DOMAIN proc :
        (/\ proc[p].run.end \in {"Exception", "BaseException"}
         /\ proc[p].st = "exited" /\ ~proc[p].sigterm) =>
           LET a == args_list[proc[p].req]
               failure == Exec(Program(a.code), ExecStart(a.case, CleanGlobals))
           IN /\ proc[p].wrote
              /\ Len(proc[p].run.put) = 1
              /\ proc[p].run.put[1].verdict =
                   IF proc[p].run.peak >= self_memory_limit THEN MLE ELSE RTE
              /\ proc[p].run.put[1].error = failure.msg
              /\ proc[p].run.put[1].output = None

\* the same for the failures `except Exception` catches, measured against
\* run_code's own default limit, the boundary included (holds)
C24_CaughtFailureVerdictByDefault ==
  \A p \in DOMAIN proc :
     (proc[p].run.end = "Exception" /\ proc[p].st = "exited" /\ ~proc[p].sigterm) =>
        /\ proc[p].wrote
        /\ Len(proc[p].run.put) = 1
        /\ proc[p].run.put[1].verdict = IF proc[p].run.peak >= 256 THEN MLE ELSE RTE
        /\ proc[p].run.put[1].output = None

(* C25: when a request's worker has written a result and exited before the   *)
(* wait of time_limit ran out, the result returned for the request is that   *)
(* result, all five fields as written, at the request's index.               *)
C25_WrittenResultReturned ==
  \A p \in DOMAIN proc :
     (proc[p].wrote /\ ~proc[p].overran /\ Resolved(proc[p].req)) =>
        /\ ResultOf(proc[p].req) = proc[p].run.put[1]
        /\ (Returned /\ entry = "single") => ReturnValue = proc[p].run.put[1]
        /\ (Returned /\ entry \in {"multi", "async"}) =>
              ReturnValue[proc[p].req] = proc[p].run.put[1]

\* a batch of two whose second request returned first, both workers having
\* finished in time, one with OK and one with Runtime Error
C25_Witness ==
  /\ entry = "multi" /\ Returned
  /\ completed = <<2, 1>>
  /\ \A p \in DOMAIN proc : proc[p].wrote /\ ~proc[p].overran
  /\ ReturnValue[1].verdict = OK /\ ReturnValue[1].output = "hello\n"
  /\ ReturnValue[2].verdict = RTE /\ ReturnValue[2].error = "boom"

(* C26 as amended: a request is reported Time Limit Error only if its worker *)
(* was still alive when the wrapper checked it after the wait; the result    *)
(* written by a worker that has exited by that check is what the wrapper     *)
(* returns, in every interleaving of the write, the exit and the check.      *)
C26_TimedOutOnlyIfAliveAtCheck ==
  [][\A s \in DOMAIN slot :
       (slot[s].pc = "check" /\ slot'[s].pc = "idle") =>
          LET i == slot[s].req
              p == slot[s].pid
          IN /\ futures'[i][1].verdict = TLE => proc[p].st # "exited"
             /\ (proc[p].st = "exited" /\ proc[p].wrote) =>
                   futures'[i] = <<proc[p].run.put[1]>>]_vars

\* a worker that was alive when time_limit ran out wrote and exited before
\* the check: its result was returned
C26_Witness ==
  \E p \in DOMAIN proc :
     /\ proc[p].overran /\ proc[p].wrote /\ ~proc[p].sigterm
     /\ Resolved(proc[p].req)
     /\ ResultOf(proc[p].req) = proc[p].run.put[1]

(* C26 as claimed: a request is reported Time Limit Error only if its worker *)
(* had not written a result: when a result is on the queue as the wrapper    *)
(* makes its check, the wrapper cannot take the timeout branch.              *)
C26_WrittenNeverTimedOut ==
  \A s \in DOMAIN slot :
     (slot[s].pc = "check" /\ queue[slot[s].req] # <<>>) => ~ENABLED WrapperTimeout(s)

(* C27: the queue of a request never holds more than one result; it changes *)
(* only by the one write of the request's own worker, or by the one read of  *)
(* the wrapper, which takes place after that worker has exited.              *)
C27_OneShotChannel ==
  [][\A i \in Requests :
       /\ Len(queue'[i]) <= 1
       /\ queue'[i] # queue[i] =>
            \/ /\ queue[i] = <<>>
               /\ \E p \in DOMAIN proc :
                    /\ proc[p].req = i
                    /\ ~proc[p].wrote /\ proc'[p].wrote
                    /\ queue'[i] = <<proc[p].run.put[1]>>
            \/ /\ queue'[i] = <<>>
               /\ futures[i] = <<>> /\ futures'[i] = queue[i]
               /\ \E p \in DOMAIN proc : proc[p].req = i /\ proc[p].st = "exited"]_vars

\* a batch in which one request's result was written and read, and the
\* other's was written by a worker that was timed out, and never read
C27_Witness ==
  /\ entry = "multi" /\ Returned
  /\ \E p, q \in DOMAIN proc :
       /\ proc[p].wrote /\ ~proc[p].sigterm
       /\ queue[proc[p].req] = <<>> /\ ResultOf(proc[p].req) = proc[p].run.put[1]
       /\ proc[q].wrote /\ proc[q].sigterm
       /\ queue[proc[q].req] = proc[q].run.put /\ ResultOf(proc[q].req).verdict = TLE

(* C28: a worker is sent the termination signal only by the wrapper of its   *)
(* own request, at that wrapper's check, when the worker was alive as the    *)
(* wait of time_limit ran out and is alive still; a worker that exited       *)
(* within the time limit is never terminated.                                *)
C28_TerminatedOnlyOnOwnTimeout ==
  [][\A p \in DOMAIN proc :
       (~proc[p].sigterm /\ proc'[p].sigterm) =>
          /\ proc[p].overran
          /\ proc[p].st # "exited"
          /\ \E s \in DOMAIN slot :
               /\ slot[s].pc = "check" /\ slot'[s].pc = "idle"
               /\ slot[s].pid = p /\ slot[s].req = proc[p].req
          /\ futures'[proc[p].req] =
               <<[time |-> time_limit, memory |-> 0, verdict |-> TLE,
                  output |-> None, error |-> None]>>]_vars

\* a batch of two: one worker was terminated on its timeout, the other had
\* finished in time and was left alone
C28_Witness ==
  /\ entry = "multi" /\ Returned
  /\ \E p, q \in DOMAIN proc :
       /\ proc[p].sigterm /\ proc[p].overran
       /\ ~proc[q].sigterm /\ ~proc[q].overran /\ proc[q].wrote
       /\ ReturnValue[proc[q].req] = proc[q].run.put[1]

(* C29: no request is run twice: whatever its outcome, a request has at most *)
(* one worker and one result, and once the batch has returned it has exactly *)
(* one worker, whose outcome is the result returned for it.                  *)
C29_NoRetry ==
  /\ \A i \in Requests :
       /\ Cardinality({p \in DOMAIN proc : proc[p].req = i}) <= 1
       /\ Len(futures[i]) <= 1
  /\ (Returned /\ entry \in {"multi", "async"}) =>
        /\ Cardinality(DOMAIN proc) = Len(args_list)
        /\ \A i \in Requests :
             /\ Cardinality({p \in DOMAIN proc : proc[p].req = i}) = 1
             /\ ReturnValue[i] = futures[i][1]
  /\ (Returned /\ entry = "single") =>
        Cardinality(DOMAIN proc) = 1 /\ ReturnValue = futures[1][1]

\* a returned batch of two failures, a timeout and a worker that died without
\* writing, with two workers in all
C29_Witness ==
  /\ entry = "multi" /\ Returned
  /\ Cardinality(DOMAIN proc) = 2
  /\ \E p, q \in DOMAIN proc :
       /\ proc[p].run.end = "spinning" /\ ReturnValue[proc[p].req].verdict = TLE
       /\ proc[q].run.end = "died" /\ ReturnValue[proc[q].req].verdict = RTE

(* C30: test_multi_code lays the M*N pairs out as one batch, request         *)
(* (m-1)*N+n being codes[m] on cases[n] tagged m, runs it on one pool, and    *)
(* starts at most one worker per pair, exactly one by the time it returns;    *)
(* without codes or without cases it returns the empty list and no pool or    *)
(* worker is ever started.                                                    *)
C30_EveryPairOnce ==
  entry = "multi_code" =>
     /\ Len(args_list) = Len(codes) * Len(cases)
     /\ \A m \in 1..Len(codes) : \A n \in 1..Len(cases) :
          LET i == (m - 1) * Len(cases) + n
              workers == {p \in DOMAIN proc : proc[p].req = i}
          IN /\ args_list[i] = [code |-> codes[m], case |-> cases[n]]
             /\ code_indices[i] = m
             /\ Cardinality(workers) <= 1
             /\ Returned => Cardinality(workers) = 1
     /\ pool # "none" => Len(slot) = max_workers
     /\ (Returned /\ codes # <<>> /\ cases # <<>>) =>
           pool = "down" /\ Cardinality(DOMAIN proc) = Len(codes) * Len(cases)
     /\ (codes = <<>> \/ cases = <<>>) =>
           /\ pool = "none" /\ slot = <<>> /\ DOMAIN proc = {}
           /\ Returned => ReturnValue = <<>>

\* two codes on two cases have returned from a pool of two processes, four
\* workers having run
C30_Witness ==
  /\ entry = "multi_code" /\ Returned
  /\ Len(codes) = 2 /\ Len(cases) = 2 /\ Len(slot) = 2
  /\ Cardinality(DOMAIN proc) = 4
  /\ \A i \in Requests : \E p \in DOMAIN proc : proc[p].req = i

\* test_multi_code has returned for codes without cases
C30_WitnessNoCases ==
  entry = "multi_code" /\ Returned /\ codes # <<>> /\ cases = <<>>

====
